---- MODULE Spec2Model ----
(***************************************************************************)
(* Model of the leaderboard route handler, src/app/api/leaderboard/route.ts *)
(* GET streams abc.csv through csv-parser, strips a repeated header row,    *)
(* derives one LeaderboardEntry per row, sorts, ranks, stats the file and   *)
(* answers 200, or answers 500 from its catch block.                        *)
(*                                                                          *)
(* Text is modelled as a sequence of one-character strings, so that         *)
(* parseInt, trim, toLowerCase and localeCompare are computed, not assumed. *)
(***************************************************************************)
EXTENDS Integers, Sequences, FiniteSets, TLC

\* ------------------------------------------------------------------ bounds
NumRequests == 2     \* GET requests in flight
MaxVersions == 2     \* external replacements of abc.csv
MaxRows == 3         \* rows of the CSV file in RowsSpec

\* ------------------------------------------------------- program constants
maxCourses == 20
ProgressCap == 100
Radix == 10
StatusOk == 200
StatusError == 500

\* -------------------------------------------------------------- text model
\* A cell of a parsed row: a string, or undefined when the row has no such
\* column.
Str(s) == [def |-> TRUE, s |-> s]
Undefined == [def |-> FALSE, s |-> <<>>]

Digits == <<"0", "1", "2", "3", "4", "5", "6", "7", "8", "9">>
Lowers == <<"a", "b", "c", "d", "e", "f", "g", "h", "i", "j", "k", "l", "m",
            "n", "o", "p", "q", "r", "s", "t", "u", "v", "w", "x", "y", "z">>
Uppers == <<"A", "B", "C", "D", "E", "F", "G", "H", "I", "J", "K", "L", "M",
            "N", "O", "P", "Q", "R", "S", "T", "U", "V", "W", "X", "Y", "Z">>
Others == <<" ", "\t", "#", "-", "+", "/">>
WhiteSpace == {" ", "\t"}

IndexOf(seq, c) == CHOOSE i \in 1..Len(seq) : seq[i] = c
InSeq(seq, c) == \E i \in 1..Len(seq) : seq[i] = c
IsDigit(c) == InSeq(Digits, c)
DigitVal(c) == IndexOf(Digits, c) - 1

\* String.prototype.toLowerCase, one character.
LowerChar(c) == IF InSeq(Uppers, c) THEN Lowers[IndexOf(Uppers, c)] ELSE c
ToLowerCase(s) == [i \in 1..Len(s) |-> LowerChar(s[i])]

RECURSIVE TrimStart(_)
TrimStart(s) ==
  IF s # <<>> /\ Head(s) \in WhiteSpace THEN TrimStart(Tail(s)) ELSE s

RECURSIVE TrimEnd(_)
TrimEnd(s) ==
  IF s # <<>> /\ s[Len(s)] \in WhiteSpace
  THEN TrimEnd(SubSeq(s, 1, Len(s) - 1)) ELSE s

\* String.prototype.trim
Trim(s) == TrimEnd(TrimStart(s))

\* The longest prefix of digits of s, as (value, digits read).
RECURSIVE DigitPrefix(_, _, _)
DigitPrefix(s, acc, n) ==
  IF s # <<>> /\ IsDigit(Head(s))
  THEN DigitPrefix(Tail(s), acc * Radix + DigitVal(Head(s)), n + 1)
  ELSE [val |-> acc, n |-> n]

\* parseInt(cell, 10): leading white space skipped, an optional sign, then
\* the digits up to the first other character; NaN when there is no digit.
\* undefined is converted to the text "undefined", which has none.
ParseInt(cell) ==
  IF ~cell.def THEN [nan |-> TRUE, val |-> 0]
  ELSE
    LET t == TrimStart(cell.s)
        neg == t # <<>> /\ Head(t) = "-"
        signed == t # <<>> /\ Head(t) \in {"-", "+"}
        p == DigitPrefix(IF signed THEN Tail(t) ELSE t, 0, 0)
    IN  IF p.n = 0 THEN [nan |-> TRUE, val |-> 0]
        ELSE [nan |-> FALSE, val |-> IF neg THEN 0 - p.val ELSE p.val]

\* parseInt(...) || 0 : NaN and 0 are falsy.
ParseCount(cell) ==
  LET p == ParseInt(cell) IN IF p.nan \/ p.val = 0 THEN 0 ELSE p.val

\* Math.round of the rational num/den, den > 0: the nearest integer, a half
\* rounded towards plus infinity.
MathRound(num, den) == (2 * num + den) \div (2 * den)

Min(a, b) == IF a < b THEN a ELSE b

\* Math.min(Math.round((total / maxCourses) * 100), 100)
Progress(total) == Min(MathRound(total * 100, maxCourses), ProgressCap)

\* item['Access Code Redemption Status']?.trim().toLowerCase() === "yes"
Redeemed(cell) == cell.def /\ ToLowerCase(Trim(cell.s)) = <<"y", "e", "s">>

UnknownName == <<"U", "n", "k", "n", "o", "w", "n", " ", "N", "a", "m", "e">>
UserNameLabel == <<"U", "s", "e", "r", " ", "N", "a", "m", "e">>

\* item['User Name'] || "Unknown Name" : undefined and "" are falsy.
NameOf(cell) == IF cell.def /\ cell.s # <<>> THEN cell.s ELSE UnknownName

\* ------------------------------------------------------------ localeCompare
\* String.prototype.localeCompare under the default collation, on the
\* characters the model uses: white space and punctuation before digits
\* before letters, letters compared without case first, and a lower-case
\* letter before its upper-case form when nothing else differs.
PrimaryOrder == Others \o Digits \o Lowers
PrimaryWeight(c) == IndexOf(PrimaryOrder, LowerChar(c))

RECURSIVE ComparePrimary(_, _)
ComparePrimary(a, b) ==
  IF a = <<>> /\ b = <<>> THEN 0
  ELSE IF a = <<>> THEN -1
  ELSE IF b = <<>> THEN 1
  ELSE IF PrimaryWeight(Head(a)) < PrimaryWeight(Head(b)) THEN -1
  ELSE IF PrimaryWeight(Head(a)) > PrimaryWeight(Head(b)) THEN 1
  ELSE ComparePrimary(Tail(a), Tail(b))

RECURSIVE CompareCase(_, _)
CompareCase(a, b) ==
  IF a = <<>> \/ b = <<>> THEN 0
  ELSE IF Head(a) = Head(b) THEN CompareCase(Tail(a), Tail(b))
  ELSE IF InSeq(Lowers, Head(a)) THEN -1 ELSE 1

LocaleCompare(a, b) ==
  LET p == ComparePrimary(a, b) IN IF p # 0 THEN p ELSE CompareCase(a, b)

\* ------------------------------------------------------- the row pipeline
\* results.map(item => ...): the entry of one parsed row. src is a history
\* field, the position of the row among the rows mapped; it is not part of
\* the response and no operator of the handler reads it.
ToEntry(item, i) ==
  LET skillBadges == ParseCount(item.badges)
      arcadePoints == ParseCount(item.games)
      total == skillBadges + arcadePoints
  IN  [name |-> NameOf(item.userName),
       redemptionStatus |-> Redeemed(item.status),
       skillBadges |-> skillBadges,
       arcadePoints |-> arcadePoints,
       progress |-> Progress(total),
       skillBadgesStr |-> <<skillBadges, "/19">>,
       arcadePointsStr |-> <<arcadePoints, "/1">>,
       src |-> i]

MapEntries(results) == [i \in 1..Len(results) |-> ToEntry(results[i], i)]

\* A faulty header rule: the first row is dropped whatever it holds.
StripFirstRow(results) == IF Len(results) > 0 THEN Tail(results) ELSE results

\* if (results.length > 0 && results[0]['User Name'] === 'User Name')
\*     results.shift();
StripHeader(results) ==
  IF Len(results) > 0 /\ results[1].userName = Str(UserNameLabel)
  THEN Tail(results) ELSE results

\* A faulty comparator: skillBadges ascending (a - b for b - a).
CompareBadgesAscending(a, b) ==
  IF a.redemptionStatus # b.redemptionStatus
  THEN (IF a.redemptionStatus THEN -1 ELSE 1)
  ELSE IF b.skillBadges # a.skillBadges THEN a.skillBadges - b.skillBadges
  ELSE IF b.arcadePoints # a.arcadePoints THEN b.arcadePoints - a.arcadePoints
  ELSE LocaleCompare(a.name, b.name)

\* The comparator handed to processedData.sort: negative when a goes first.
Compare(a, b) ==
  IF a.redemptionStatus # b.redemptionStatus
  THEN (IF a.redemptionStatus THEN -1 ELSE 1)
  ELSE IF b.skillBadges # a.skillBadges THEN b.skillBadges - a.skillBadges
  ELSE IF b.arcadePoints # a.arcadePoints THEN b.arcadePoints - a.arcadePoints
  ELSE LocaleCompare(a.name, b.name)

\* A sort that is not stable: an element is placed before the elements it
\* ties with.
InsertPointUnstable(sorted, x) ==
  IF \E k \in 1..Len(sorted) : Compare(x, sorted[k]) <= 0
  THEN CHOOSE k \in 1..Len(sorted) :
         /\ Compare(x, sorted[k]) <= 0
         /\ \A j \in 1..(k - 1) : Compare(x, sorted[j]) > 0
  ELSE Len(sorted) + 1

\* Array.prototype.sort is stable: an element is placed before the first
\* element it must precede, so after every element it ties with.
InsertPoint(sorted, x) ==
  IF \E k \in 1..Len(sorted) : Compare(x, sorted[k]) < 0
  THEN CHOOSE k \in 1..Len(sorted) :
         /\ Compare(x, sorted[k]) < 0
         /\ \A j \in 1..(k - 1) : Compare(x, sorted[j]) >= 0
  ELSE Len(sorted) + 1

Insert(sorted, x) ==
  LET k == InsertPoint(sorted, x)
  IN  SubSeq(sorted, 1, k - 1) \o <<x>> \o SubSeq(sorted, k, Len(sorted))

RECURSIVE SortFrom(_, _)
SortFrom(sorted, rest) ==
  IF rest = <<>> THEN sorted
  ELSE SortFrom(Insert(sorted, Head(rest)), Tail(rest))

SortEntries(processedData) == SortFrom(<<>>, processedData)

\* A faulty rank: the 0-based index itself.
RankZeroBased(index) == index

\* rank: index + 1, index the 0-based position in the sorted array.
RankOf(index) == index + 1

RankEntries(sorted) ==
  [k \in 1..Len(sorted) |->
     [name |-> sorted[k].name,
      redemptionStatus |-> sorted[k].redemptionStatus,
      skillBadges |-> sorted[k].skillBadges,
      arcadePoints |-> sorted[k].arcadePoints,
      progress |-> sorted[k].progress,
      skillBadgesStr |-> sorted[k].skillBadgesStr,
      arcadePointsStr |-> sorted[k].arcadePointsStr,
      src |-> sorted[k].src,
      rank |-> RankOf(k - 1)]]

\* Lines 38-84: from the rows pushed by the stream to the ranked data.
Leaderboard(results) ==
  RankEntries(SortEntries(MapEntries(StripHeader(results))))

\* --------------------------------------------------------------- CSV rows
RowHeader ==
  [userName |-> Str(<<"U", "s", "e", "r", " ", "N", "a", "m", "e">>),
   badges |-> Str(<<"#", " ", "o", "f", " ", "S", "k", "i", "l", "l", " ", "B", "a", "d", "g", "e", "s", " ", "C", "o", "m", "p", "l", "e", "t", "e", "d">>),
   games |-> Str(<<"#", " ", "o", "f", " ", "A", "r", "c", "a", "d", "e", " ", "G", "a", "m", "e", "s", " ", "C", "o", "m", "p", "l", "e", "t", "e", "d">>),
   status |-> Str(<<"A", "c", "c", "e", "s", "s", " ", "C", "o", "d", "e", " ", "R", "e", "d", "e", "m", "p", "t", "i", "o", "n", " ", "S", "t", "a", "t", "u", "s">>)]

RowBob ==
  [userName |-> Str(<<"B", "o", "b">>),
   badges |-> Str(<<"2">>),
   games |-> Str(<<"1">>),
   status |-> Str(<<"Y", "e", "s">>)]

RowBobAgain ==
  [userName |-> Str(<<"B", "o", "b">>),
   badges |-> Str(<<" ", "2", "x">>),
   games |-> Str(<<"+", "1">>),
   status |-> Str(<<" ", "y", "e", "s", "\t">>)]

RowAmy ==
  [userName |-> Str(<<"a", "m", "y">>),
   badges |-> Str(<<"2">>),
   games |-> Str(<<"1">>),
   status |-> Str(<<"Y", "E", "S">>)]

RowEve ==
  [userName |-> Str(<<"e", "v", "e">>),
   badges |-> Str(<<"2">>),
   games |-> Str(<<"0">>),
   status |-> Str(<<"Y", "e", "s">>)]

RowCy ==
  [userName |-> Str(<<"c", "y">>),
   badges |-> Str(<<"-", "3">>),
   games |-> Undefined,
   status |-> Str(<<"N", "o">>)]

RowDee ==
  [userName |-> Str(<<"d", "e", "e">>),
   badges |-> Str(<<"1", "9">>),
   games |-> Str(<<"1", "2">>),
   status |-> Str(<<"y", "e", "s">>)]

RowAnon ==
  [userName |-> Str(<<>>),
   badges |-> Str(<<"a", "b", "c">>),
   games |-> Str(<<"3">>),
   status |-> Undefined]

RowZed ==
  [userName |-> Str(<<"Z", "e", "d">>),
   badges |-> Str(<<"1", "9">>),
   games |-> Str(<<"1">>),
   status |-> Str(<<"n", "o">>)]

RowSet == {RowHeader, RowBob, RowBobAgain, RowAmy, RowEve, RowCy, RowDee,
           RowAnon, RowZed}

\* ------------------------------------------------------------------- state
VARIABLES
  file,       \* abc.csv at the fixed path: [exists, ver, mtime, rows]
  pc,         \* pc[r]: where request r stands
  opened,     \* opened[r]: the file version r's read stream has open
  stream,     \* stream[r]: the rows r's parser has still to emit
  results,    \* results[r]: the const results of r's call of GET
  responses,  \* responses[r]: the responses r's call has returned
  uncaught,   \* uncaught[r]: an 'error' event was emitted with no listener
  fault       \* fault[r]: the failure r met, "none" if none

vars == <<file, pc, opened, stream, results, responses, uncaught, fault>>

Requests == 1..NumRequests

\* The versions the file goes through: version v is written by the v-th
\* external replacement, and its modification time is later by v.
FileCatalogue == << <<RowHeader, RowBob>>, <<RowAmy, RowZed>>, <<>> >>
FileRows(v) == FileCatalogue[(v % Len(FileCatalogue)) + 1]
FileVersion(v) == [exists |-> TRUE, ver |-> v, mtime |-> v, rows |-> FileRows(v)]
Absent == [exists |-> FALSE, ver |-> 0, mtime |-> 0, rows |-> <<>>]

BoundedSeq(S, n) == UNION {[1..k -> S] : k \in 0..n}

\* fs.existsSync(filePath)
ExistsSync(f) == f.exists

\* A faulty timestamp: the modification time read once, of the first version.
StatMtimeCached(f) == <<"ISO-8601", FileVersion(0).mtime>>

\* fs.statSync(filePath).mtime.toISOString(): the instant, as text.
StatMtime(f) == <<"ISO-8601", f.mtime>>

\* A faulty results array: one array at module level, which every request's
\* rows are pushed to.
PushRowShared(res, r, row) == [q \in DOMAIN res |-> Append(res[q], row)]

\* .on("data", (row) => results.push(row)) on the results of request r.
PushRow(res, r, row) == [res EXCEPT ![r] = Append(@, row)]

NotFoundMessage == "CSV file not found at path: abc.csv"

\* The catch block's NextResponse.json(..., {status: 500, ...}).
ErrorResponse(msg) ==
  [status |-> StatusError,
   success |-> FALSE,
   message |-> "Error reading leaderboard data.",
   error |-> msg]

\* NextResponse.json(responsePayload, {status: 200, ...}).
SuccessResponse(updatedAt, rankedData) ==
  [status |-> StatusOk,
   success |-> TRUE,
   message |-> "Leaderboard data fetched successfully.",
   updatedAt |-> updatedAt,
   data |-> rankedData]

Respond(r, response) == responses' = [responses EXCEPT ![r] = Append(@, response)]

RequestsInit ==
  /\ pc = [r \in Requests |-> "idle"]
  /\ opened = [r \in Requests |-> Absent]
  /\ stream = [r \in Requests |-> <<>>]
  /\ results = [r \in Requests |-> <<>>]
  /\ responses = [r \in Requests |-> <<>>]
  /\ uncaught = [r \in Requests |-> FALSE]
  /\ fault = [r \in Requests |-> "none"]

Init ==
  /\ file \in {FileVersion(0), Absent}
  /\ RequestsInit

\* ----------------------------------------------------------------- actions
\* GET is called and existsSync says no: reject, caught, 500.
StartMissing(r) ==
  /\ pc[r] = "idle"
  /\ ~ExistsSync(file)
  /\ fault' = [fault EXCEPT ![r] = "notfound"]
  /\ Respond(r, ErrorResponse(NotFoundMessage))
  /\ pc' = [pc EXCEPT ![r] = "done"]
  /\ UNCHANGED <<file, opened, stream, results, uncaught>>

\* GET is called and existsSync says yes: the read stream is created and
\* piped into the parser, the listeners are put on the parser, and the
\* handler suspends at the await. The stream opens the file later.
StartStream(r) ==
  /\ pc[r] = "idle"
  /\ ExistsSync(file)
  /\ pc' = [pc EXCEPT ![r] = "opening"]
  /\ UNCHANGED <<file, opened, stream, results, responses, uncaught, fault>>

\* The read stream opens the file that is at the path now.
OpenOk(r) ==
  /\ pc[r] = "opening"
  /\ file.exists
  /\ opened' = [opened EXCEPT ![r] = file]
  /\ stream' = [stream EXCEPT ![r] = file.rows]
  /\ pc' = [pc EXCEPT ![r] = "reading"]
  /\ UNCHANGED <<file, results, responses, uncaught, fault>>

\* The file is gone when the read stream opens it: the read stream emits
\* 'error' (ENOENT). The only 'error' listener is on the parser that pipe()
\* returned, so the event has no listener, nothing rejects or resolves the
\* promise, and the parser never ends.
OpenFail(r) ==
  /\ pc[r] = "opening"
  /\ ~file.exists
  /\ fault' = [fault EXCEPT ![r] = "enoent"]
  /\ uncaught' = [uncaught EXCEPT ![r] = TRUE]
  /\ pc' = [pc EXCEPT ![r] = "hung"]
  /\ UNCHANGED <<file, opened, stream, results, responses>>

\* A read fails (EIO, EISDIR, ...): the read stream emits 'error', as above.
ReadError(r) ==
  /\ pc[r] = "reading"
  /\ fault' = [fault EXCEPT ![r] = "eio"]
  /\ uncaught' = [uncaught EXCEPT ![r] = TRUE]
  /\ pc' = [pc EXCEPT ![r] = "hung"]
  /\ UNCHANGED <<file, opened, stream, results, responses>>

\* The parser emits a row.
Data(r) ==
  /\ pc[r] = "reading"
  /\ stream[r] # <<>>
  /\ results' = PushRow(results, r, Head(stream[r]))
  /\ stream' = [stream EXCEPT ![r] = Tail(@)]
  /\ UNCHANGED <<file, pc, opened, responses, uncaught, fault>>

\* The parser emits 'end': resolve().
End(r) ==
  /\ pc[r] = "reading"
  /\ stream[r] = <<>>
  /\ pc' = [pc EXCEPT ![r] = "resolved"]
  /\ UNCHANGED <<file, opened, stream, results, responses, uncaught, fault>>

\* The parser emits 'error': reject(err), caught, 500.
ParserError(r) ==
  /\ pc[r] = "reading"
  /\ fault' = [fault EXCEPT ![r] = "parse"]
  /\ Respond(r, ErrorResponse("csv-parser error"))
  /\ pc' = [pc EXCEPT ![r] = "done"]
  /\ UNCHANGED <<file, opened, stream, results, uncaught>>

\* After the await: header strip, map, sort, rank, statSync, 200.
FinishOk(r) ==
  /\ pc[r] = "resolved"
  /\ file.exists
  /\ results' = [results EXCEPT ![r] = StripHeader(@)]
  /\ Respond(r, SuccessResponse(StatMtime(file), Leaderboard(results[r])))
  /\ pc' = [pc EXCEPT ![r] = "done"]
  /\ UNCHANGED <<file, opened, stream, uncaught, fault>>

\* After the await, with the file gone by now: statSync throws, caught, 500.
FinishStatFail(r) ==
  /\ pc[r] = "resolved"
  /\ ~file.exists
  /\ results' = [results EXCEPT ![r] = StripHeader(@)]
  /\ fault' = [fault EXCEPT ![r] = "stat"]
  /\ Respond(r, ErrorResponse("ENOENT: no such file or directory, stat"))
  /\ pc' = [pc EXCEPT ![r] = "done"]
  /\ UNCHANGED <<file, opened, stream, uncaught>>

\* The file is externally managed: it is replaced by its next version ...
Replace ==
  /\ file.ver < MaxVersions
  /\ file' = FileVersion(file.ver + 1)
  /\ UNCHANGED <<pc, opened, stream, results, responses, uncaught, fault>>

\* ... or removed.
Delete ==
  /\ file.exists
  /\ file' = [file EXCEPT !.exists = FALSE]
  /\ UNCHANGED <<pc, opened, stream, results, responses, uncaught, fault>>

\* The steps of request r that the event loop runs once they are pending.
Handler(r) ==
  \/ StartMissing(r)
  \/ StartStream(r)
  \/ OpenOk(r)
  \/ OpenFail(r)
  \/ Data(r)
  \/ End(r)
  \/ FinishOk(r)
  \/ FinishStatFail(r)

Next ==
  \/ \E r \in Requests : Handler(r) \/ ReadError(r) \/ ParserError(r)
  \/ Replace
  \/ Delete

Spec == Init /\ [][Next]_vars

\* Node runs every pending callback and continuation: no step of a request
\* that stays enabled is put off for ever. Faults and the file's owner are
\* under no such obligation.
FairSpec == Spec /\ \A r \in Requests : WF_vars(Handler(r))

\* One request on a file that is left alone, the file's rows drawn freely.
RowsInit ==
  /\ \E rows \in BoundedSeq(RowSet, MaxRows) :
       file = [exists |-> TRUE, ver |-> 0, mtime |-> 0, rows |-> rows]
  /\ RequestsInit

RowsNext ==
  \E r \in {1} : StartStream(r) \/ OpenOk(r) \/ Data(r) \/ End(r) \/ FinishOk(r)

RowsSpec == RowsInit /\ [][RowsNext]_vars

\* ------------------------------------------------------------------ claims
Succeeded(r) ==
  /\ pc[r] = "done"
  /\ Len(responses[r]) = 1
  /\ responses[r][1].success

DataOf(r) == responses[r][1].data

SameKeys(a, b) ==
  /\ a.redemptionStatus = b.redemptionStatus
  /\ a.skillBadges = b.skillBadges
  /\ a.arcadePoints = b.arcadePoints
  /\ a.name = b.name

\* The rows of a file that the header rule keeps.
KeptRows(rows) ==
  IF rows # <<>> /\ rows[1].userName.def /\ rows[1].userName.s = UserNameLabel
  THEN [k \in 1..(Len(rows) - 1) |-> rows[k + 1]]
  ELSE rows

\* C1: in every success response, for positions i < j of data: i is redeemed
\* or j is not; with the same redemptionStatus, skillBadges at i >= at j;
\* with those equal too, arcadePoints at i >= at j; with those equal too,
\* the name at i does not sort after the name at j.
C1_SortOrder ==
  \A r \in Requests : Succeeded(r) =>
    LET d == DataOf(r) IN
    \A i, j \in 1..Len(d) : i < j =>
      /\ d[i].redemptionStatus \/ ~d[j].redemptionStatus
      /\ d[i].redemptionStatus = d[j].redemptionStatus =>
           /\ d[i].skillBadges >= d[j].skillBadges
           /\ d[i].skillBadges = d[j].skillBadges =>
                /\ d[i].arcadePoints >= d[j].arcadePoints
                /\ d[i].arcadePoints = d[j].arcadePoints =>
                     LocaleCompare(d[i].name, d[j].name) <= 0

\* A response ordered by three of the keys: amy before Bob by name (against
\* the order of their code units), both before the unredeemed Zed, who has
\* more badges.
C1_Witness ==
  \E r \in Requests : Succeeded(r) /\
    LET d == DataOf(r) IN
    /\ Len(d) = 3
    /\ d[1].name = <<"a", "m", "y">> /\ d[2].name = <<"B", "o", "b">>
    /\ d[1].skillBadges = d[2].skillBadges
    /\ d[1].arcadePoints = d[2].arcadePoints
    /\ d[2].redemptionStatus /\ ~d[3].redemptionStatus
    /\ d[3].skillBadges > d[2].skillBadges

\* A response ordered by the other two: dee before Bob by skillBadges, Bob
\* before eve by arcadePoints.
C1_WitnessCounts ==
  \E r \in Requests : Succeeded(r) /\
    LET d == DataOf(r) IN
    /\ Len(d) = 3
    /\ d[1].skillBadges > d[2].skillBadges
    /\ d[2].skillBadges = d[3].skillBadges
    /\ d[2].arcadePoints > d[3].arcadePoints
    /\ d[3].redemptionStatus

\* C2: in every success response with n entries, the entry at 0-based
\* position k has rank k+1: the ranks are exactly 1..n, strictly increasing,
\* none shared or skipped, also between entries that tie on every sort key.
C2_RankIsPosition ==
  \A r \in Requests : Succeeded(r) =>
    LET d == DataOf(r) IN
    /\ \A k \in 1..Len(d) : d[k].rank = k
    /\ {d[k].rank : k \in 1..Len(d)} = 1..Len(d)
    /\ \A i, j \in 1..Len(d) : i < j => d[i].rank < d[j].rank

\* Two entries that tie on every sort key, ranked 2 and 3.
C2_Witness ==
  \E r \in Requests : Succeeded(r) /\
    LET d == DataOf(r) IN
    /\ Len(d) = 3
    /\ SameKeys(d[2], d[3])
    /\ d[2].rank = 2 /\ d[3].rank = 3

\* C3: for every row of the file, whatever its two count columns hold
\* (missing, non-numeric and negative-signed text included), the entry GET
\* returns for it has an integer progress with 0 <= progress <= 100.
C3_ProgressInRange ==
  \A r \in Requests : Succeeded(r) =>
    \A k \in 1..Len(DataOf(r)) : DataOf(r)[k].progress \in 0..ProgressCap

\* C4: any failure of a GET request, at whichever step (the existence check,
\* opening or reading the stream, parsing, the modification time), is caught
\* and answered with status 500 and the body {success: false, message,
\* error}; none escapes the handler or leaves the request unanswered.
C4_EveryFailureAnswered ==
  \A r \in Requests : fault[r] # "none" =>
    /\ ~uncaught[r]
    /\ pc[r] = "done"
    /\ Len(responses[r]) = 1
    /\ responses[r][1].status = StatusError
    /\ DOMAIN responses[r][1] = {"status", "success", "message", "error"}
    /\ ~responses[r][1].success

\* C5: when the file is absent, GET returns the error response (500, success
\* false, the error text reporting the file not found), never a success
\* payload, and does not crash; also when the file disappears between the
\* existence check and the read stream opening it.
C5_MissingFileAnswered ==
  \A r \in Requests : fault[r] \in {"notfound", "enoent"} =>
    /\ ~uncaught[r]
    /\ pc[r] = "done"
    /\ Len(responses[r]) = 1
    /\ responses[r][1].status = StatusError
    /\ ~responses[r][1].success

\* C6: every GET request eventually produces exactly one response, 200 or
\* 500, whatever the outcome of the file read; the awaited promise is always
\* settled.
C6_EventuallyOneResponse ==
  \A r \in Requests :
    <>(/\ pc[r] = "done"
       /\ Len(responses[r]) = 1
       /\ responses[r][1].status \in {StatusOk, StatusError})

\* C7: requests share no mutable state: whatever the interleaving, a
\* response's data is what a request run alone computes from the rows of the
\* file version this request's own stream read, so two requests that read
\* the same version return the same data.
C7_OwnRowsOnly ==
  \A r \in Requests : Succeeded(r) =>
    /\ DataOf(r) = Leaderboard(FileRows(opened[r].ver))
    /\ \A q \in Requests :
         Succeeded(q) /\ opened[q].ver = opened[r].ver => DataOf(q) = DataOf(r)

\* Interleaved requests: q opened the first version and is suspended in the
\* middle of its read, with a row pushed and a row to come, while r, which
\* opened the later version after it, has been answered from its own rows.
C7_Witness ==
  \E r, q \in Requests :
    /\ Succeeded(r)
    /\ DataOf(r) # <<>>
    /\ opened[r].ver > opened[q].ver
    /\ pc[q] = "reading"
    /\ results[q] # <<>>
    /\ stream[q] # <<>>

\* Two requests that read the same version interleaved, row by row, and were
\* both answered.
C7_WitnessSameVersion ==
  \E r, q \in Requests :
    /\ r # q
    /\ Succeeded(r) /\ Succeeded(q)
    /\ opened[r].ver = opened[q].ver
    /\ DataOf(r) # <<>>

\* C8: entries equal on all four sort keys appear in data in the relative
\* order of their rows in the file.
C8_StableTies ==
  \A r \in Requests : Succeeded(r) =>
    LET d == DataOf(r) IN
    \A i, j \in 1..Len(d) :
      i < j /\ SameKeys(d[i], d[j]) => d[i].src < d[j].src

\* Two rows that tie on every key although their text differs, brought
\* together by the sort across a row that sorts before both.
C8_Witness ==
  \E r \in Requests : Succeeded(r) /\
    LET d == DataOf(r) IN
    /\ Len(d) = 3
    /\ results[r] = <<RowBobAgain, RowAmy, RowBob>>
    /\ SameKeys(d[2], d[3])
    /\ d[2].src = 1 /\ d[3].src = 3

\* C9: the first parsed row is removed iff its 'User Name' is the text
\* 'User Name'; no other row is removed: data holds exactly one entry per
\* remaining row, a header-like row further down is kept as an entry, and an
\* empty file gives success with an empty data array.
C9_OnlyLeadingHeaderRemoved ==
  \A r \in Requests : pc[r] = "done" /\ fault[r] = "none" =>
    LET kept == KeptRows(opened[r].rows)
        d == DataOf(r)
    IN  /\ Succeeded(r)
        /\ results[r] = kept
        /\ Len(d) = Len(kept)
        /\ {d[k].src : k \in 1..Len(d)} = 1..Len(kept)
        /\ \A k \in 1..Len(d) :
             LET e == ToEntry(kept[d[k].src], d[k].src) IN
             /\ d[k].name = e.name
             /\ d[k].redemptionStatus = e.redemptionStatus
             /\ d[k].skillBadges = e.skillBadges
             /\ d[k].arcadePoints = e.arcadePoints
             /\ d[k].progress = e.progress

\* A file of a header row, a data row and the header again: two entries, the
\* second header row among them.
C9_Witness ==
  \E r \in Requests : Succeeded(r) /\
    /\ opened[r].rows = <<RowHeader, RowBob, RowHeader>>
    /\ Len(DataOf(r)) = 2
    /\ \E k \in 1..2 : DataOf(r)[k].name = UserNameLabel

\* C10 as stated: in every success response updatedAt is the modification
\* time of the file version whose rows make up data.
C10_TimestampOfDataVersion ==
  \A r \in Requests : Succeeded(r) =>
    responses[r][1].updatedAt = <<"ISO-8601", opened[r].mtime>>

\* C10 as amended: updatedAt is the modification time of the version at the
\* path when the handler stats it, after the stream has ended: never a
\* version older than the one whose rows make up data, and that very version
\* when the file was not replaced in between.
C10_TimestampOfStatVersion ==
  [][\A r \in Requests :
       (pc[r] = "resolved" /\ pc'[r] = "done" /\ responses'[r][1].success) =>
         /\ responses'[r][1].updatedAt = <<"ISO-8601", file.mtime>>
         /\ file.ver >= opened[r].ver
         /\ file.ver = opened[r].ver =>
              responses'[r][1].updatedAt = <<"ISO-8601", opened[r].mtime>>]_vars

\* A success response that pairs the rows of one version with the
\* modification time of a later one.
C10_Witness ==
  \E r \in Requests :
    /\ Succeeded(r)
    /\ opened[r].ver = 0
    /\ DataOf(r) = Leaderboard(FileRows(0))
    /\ responses[r][1].updatedAt = <<"ISO-8601", FileVersion(1).mtime>>

====
